---- MODULE Spec2Model ----
(***************************************************************************)
(* Responder side of multistream-select as implemented by                  *)
(* libp2p/protocol_muxer/multiselect.py: the handler registry              *)
(* (Multiselect.handlers, add_handler) and the negotiate / handshake       *)
(* coroutines.  A coroutine is modelled by its position (pc) between two   *)
(* awaits on the communicator; the communicator and the peer behind it     *)
(* are external and answer every read and write nondeterministically.      *)
(***************************************************************************)
EXTENDS Integers, Sequences, FiniteSets, TLC

\* ------------------------------------------------------------------------
\* Bounds of the model
\* ------------------------------------------------------------------------
\* Proposals the peer of a lone session sends before it goes silent.
MaxProposals == 3
\* Proposals each peer sends when two sessions run concurrently.
MaxProposalsConc == 1

\* ------------------------------------------------------------------------
\* Program constants and value universes
\* ------------------------------------------------------------------------
MULTISELECT_PROTOCOL_ID == "/multistream/1.0.0"
PROTOCOL_NOT_FOUND_MSG == "na"
LS_COMMAND == "ls"

ECHO == "/echo/1.0.0"
CHAT == "/chat/1.0.0"

\* Tokens the peer may send (communicator.read() results).
Tokens == {MULTISELECT_PROTOCOL_ID, PROTOCOL_NOT_FOUND_MSG, LS_COMMAND, ECHO, CHAT}
\* Protocol ids the host registers (add_handler has no restriction on the id).
ProtocolIds == {MULTISELECT_PROTOCOL_ID, LS_COMMAND, ECHO}
\* Protocol ids the host registers while two sessions run concurrently.
ConcProtocolIds == {ECHO, CHAT}
\* Handler functions.
Handlers == {"h1", "h2"}
\* Concurrent negotiate() coroutines, one per communicator.
Sessions == {"s1", "s2"}
\* The session that runs when a single negotiation is studied.
Solo == {"s1"}
\* Messages a MultiselectCommunicatorError may carry.
CommFailures == {"fail to read or write", "connection reset"}

\* Python None for a token-valued local.
None == "<None>"

\* ------------------------------------------------------------------------
\* Exceptions
\* ------------------------------------------------------------------------
\* No exception raised.
NoError == [type |-> "", wraps |-> "", msg |-> "", received |-> ""]

\* MultiselectCommunicatorError raised by communicator.read()/write().
MultiselectCommunicatorError(m) ==
    [type |-> "MultiselectCommunicatorError", wraps |-> "", msg |-> m, received |-> ""]

\* Faulty variant: the communicator error is re-raised as it is.
reraise_unwrapped(error) == error

\* raise MultiselectError(error): the communicator error becomes the only
\* argument of the new exception.
MultiselectError(error) ==
    [type |-> "MultiselectError", wraps |-> error.type, msg |-> error.msg, received |-> ""]

\* raise MultiselectError("multiselect protocol ID mismatch: received
\* handshake_contents=<contents>")
MismatchError(contents) ==
    [type |-> "MultiselectError", wraps |-> "",
     msg |-> "multiselect protocol ID mismatch: received handshake_contents=",
     received |-> contents]

\* ------------------------------------------------------------------------
\* Pure helpers
\* ------------------------------------------------------------------------
\* Faulty variant: the comparison is inverted.
validate_handshake_inverted(contents) == contents # MULTISELECT_PROTOCOL_ID

\* Faulty variant: accepts any token that starts with "/".
validate_handshake_prefix(contents) == contents \in {MULTISELECT_PROTOCOL_ID, ECHO, CHAT}

validate_handshake(contents) == contents = MULTISELECT_PROTOCOL_ID

\* Faulty variant: no command is taken for the listing command.
is_ls_never(cmd) == FALSE

\* command == "ls"
is_ls(cmd) == cmd = LS_COMMAND

\* protocol = TProtocol(command): TProtocol is a typing.NewType, whose call
\* returns its argument.
TProtocol(cmd) == cmd

\* protocol in self.handlers
has_handler(reg, p) == p \in DOMAIN reg

\* Faulty variant: returns the handler of another registered protocol.
get_handler_other(reg, p) ==
    reg[CHOOSE k \in DOMAIN reg : (k # p) \/ (DOMAIN reg = {p})]

\* self.handlers[protocol]
get_handler(reg, p) == reg[p]

\* Faulty variant: the registry is replaced by one that holds the new id only.
dict_only(reg, p, h) == [k \in {p} |-> h]

\* Faulty variant: an id that is already registered keeps its handler.
dict_setdefault(reg, p, h) ==
    [k \in (DOMAIN reg) \cup {p} |-> IF k \in DOMAIN reg THEN reg[k] ELSE h]

\* self.handlers[protocol] = handler
dict_set(reg, p, h) ==
    [k \in (DOMAIN reg) \cup {p} |-> IF k = p THEN h ELSE reg[k]]

\* Faulty variant: answers an unregistered proposal with an empty token.
not_found_reply_empty == ""

\* The token written when the proposal is not registered.
not_found_reply == PROTOCOL_NOT_FOUND_MSG

\* The token written during the handshake.
handshake_token == MULTISELECT_PROTOCOL_ID

\* Faulty variant: the confirmation repeats the handshake token.
confirmation_token_handshake(p) == MULTISELECT_PROTOCOL_ID

\* The token written to confirm a registered proposal.
confirmation_token(p) == p

\* ------------------------------------------------------------------------
\* State
\* ------------------------------------------------------------------------
VARIABLES
    handlers,            \* Multiselect.handlers: dict protocol -> handler
    last_add,            \* arguments of the latest add_handler call, <<>> while none
    pc,                  \* position of each negotiate() coroutine
    handshake_contents,  \* local of handshake()
    command,             \* local of negotiate()
    protocol,            \* local of negotiate()
    found_handler,       \* what the registry held for protocol when line 60 tested it
    pending,             \* communicator operations issued and not completed
    log,                 \* completed communicator operations and registry lookups
    result,              \* value returned by negotiate(), <<>> while none
    raised               \* exception raised by negotiate(), NoError while none

vars == <<handlers, last_add, pc, handshake_contents, command, protocol, found_handler,
          pending, log,
          result, raised>>

WriteOp(tok) == [op |-> "write", token |-> tok]
ReadOp == [op |-> "read", token |-> None]

\* Log entries: a completed write or read, one that raised
\* MultiselectCommunicatorError(m), and a membership test on the registry.
Wrote(tok) == [op |-> "write", token |-> tok, ok |-> TRUE, err |-> ""]
WriteRaised(tok, m) == [op |-> "write", token |-> tok, ok |-> FALSE, err |-> m]
Read(tok) == [op |-> "read", token |-> tok, ok |-> TRUE, err |-> ""]
ReadRaised(m) == [op |-> "read", token |-> None, ok |-> FALSE, err |-> m]
Lookup(tok, found) == [op |-> "lookup", token |-> tok, ok |-> found, err |-> ""]

\* Number of reads of the proposal loop a session has completed.
LoopReads(s) ==
    Cardinality({i \in 1..Len(log[s]) : log[s][i].op = "read"}) - 1

Init ==
    /\ handlers = <<>>
    /\ last_add = <<>>
    /\ pc = [s \in Sessions |-> "idle"]
    /\ handshake_contents = [s \in Sessions |-> None]
    /\ command = [s \in Sessions |-> None]
    /\ protocol = [s \in Sessions |-> None]
    /\ found_handler = [s \in Sessions |-> None]
    /\ pending = [s \in Sessions |-> <<>>]
    /\ log = [s \in Sessions |-> <<>>]
    /\ result = [s \in Sessions |-> <<>>]
    /\ raised = [s \in Sessions |-> NoError]

\* ------------------------------------------------------------------------
\* Registry
\* ------------------------------------------------------------------------
add_handler(p, h) ==
    /\ handlers' = dict_set(handlers, p, h)
    /\ last_add' = <<p, h>>
    /\ UNCHANGED <<pc, handshake_contents, command, protocol, found_handler, pending,
                   log, result, raised>>

\* ------------------------------------------------------------------------
\* negotiate / handshake, one action per stretch of code between two awaits
\* ------------------------------------------------------------------------
\* The coroutine raises: it ends in Failed with the exception surfaced.
Raise(s, exc) ==
    /\ pc' = [pc EXCEPT ![s] = "failed"]
    /\ raised' = [raised EXCEPT ![s] = exc]
    /\ pending' = [pending EXCEPT ![s] = <<>>]

\* The coroutine suspends on a communicator operation.
Await(s, label, op) ==
    /\ pc' = [pc EXCEPT ![s] = label]
    /\ pending' = [pending EXCEPT ![s] = <<op>>]

\* Faulty variant: the handshake starts by reading the peer's protocol id.
negotiate_call_reads_first(s) ==
    /\ pc[s] = "idle"
    /\ Await(s, "hs_read", ReadOp)
    /\ UNCHANGED <<handlers, last_add, found_handler, handshake_contents, command, protocol, log,
                   result, raised>>

\* Faulty variant: the handshake write is not awaited before the read is made.
negotiate_call_write_not_awaited(s) ==
    /\ pc[s] = "idle"
    /\ pc' = [pc EXCEPT ![s] = "hs_read"]
    /\ pending' = [pending EXCEPT ![s] = <<WriteOp(handshake_token), ReadOp>>]
    /\ UNCHANGED <<handlers, last_add, found_handler, handshake_contents, command, protocol,
                   log, result, raised>>

\* negotiate() is called: handshake() writes the handshake token.
negotiate_call(s) ==
    /\ pc[s] = "idle"
    /\ Await(s, "hs_write", WriteOp(handshake_token))
    /\ UNCHANGED <<handlers, last_add, found_handler, handshake_contents, command, protocol, log,
                   result, raised>>

\* handshake(): the write succeeded; read the peer's protocol id.
handshake_write_ok(s) ==
    /\ pc[s] = "hs_write"
    /\ log' = [log EXCEPT ![s] = Append(@, Wrote(pending[s][1].token))]
    /\ Await(s, "hs_read", ReadOp)
    /\ UNCHANGED <<handlers, last_add, found_handler, handshake_contents, command, protocol, result, raised>>

\* Faulty variant: the error raised for a failed handshake write names the phase.
handshake_write_fail_tagged(s, m) ==
    /\ pc[s] = "hs_write"
    /\ log' = [log EXCEPT ![s] = Append(@, WriteRaised(pending[s][1].token, m))]
    /\ Raise(s, [MultiselectError(MultiselectCommunicatorError(m)) EXCEPT !.received = "handshake"])
    /\ UNCHANGED <<handlers, last_add, found_handler, handshake_contents, command, protocol, result>>

\* handshake(): the write raised MultiselectCommunicatorError.
handshake_write_fail(s, m) ==
    /\ pc[s] = "hs_write"
    /\ log' = [log EXCEPT ![s] = Append(@, WriteRaised(pending[s][1].token, m))]
    /\ Raise(s, MultiselectError(MultiselectCommunicatorError(m)))
    /\ UNCHANGED <<handlers, last_add, found_handler, handshake_contents, command, protocol, result>>

\* handshake(): the read returned tok; validate it, and on success enter the
\* loop of negotiate(), which reads a command.
handshake_read_ok(s, tok) ==
    /\ pc[s] = "hs_read"
    /\ log' = [log EXCEPT ![s] = Append(@, Read(tok))]
    /\ handshake_contents' = [handshake_contents EXCEPT ![s] = tok]
    /\ IF validate_handshake(tok)
       THEN /\ Await(s, "read", ReadOp)
            /\ UNCHANGED raised
       ELSE Raise(s, MismatchError(tok))
    /\ UNCHANGED <<handlers, last_add, found_handler, command, protocol, result>>

\* handshake(): the read raised MultiselectCommunicatorError.
handshake_read_fail(s, m) ==
    /\ pc[s] = "hs_read"
    /\ log' = [log EXCEPT ![s] = Append(@, ReadRaised(m))]
    /\ Raise(s, MultiselectError(MultiselectCommunicatorError(m)))
    /\ UNCHANGED <<handlers, last_add, found_handler, handshake_contents, command, protocol, result>>

\* Faulty variant: an id this session has answered "na" is answered "na" again
\* without asking the registry.
loop_read_ok_remembers_na(s, tok) ==
    LET p == TProtocol(tok)
        found == /\ has_handler(handlers, p)
                 /\ \A i \in 1..Len(log[s]) : log[s][i] # Lookup(p, FALSE)
    IN
    /\ pc[s] = "read"
    /\ command' = [command EXCEPT ![s] = tok]
    /\ IF is_ls(tok)
       THEN /\ log' = [log EXCEPT ![s] = Append(@, Read(tok))]
            /\ Await(s, "read", ReadOp)
            /\ UNCHANGED <<protocol, found_handler>>
       ELSE /\ protocol' = [protocol EXCEPT ![s] = p]
            /\ log' = [log EXCEPT ![s] = @ \o <<Read(tok), Lookup(p, found)>>]
            /\ IF found
               THEN /\ Await(s, "confirm", WriteOp(confirmation_token(p)))
                    /\ found_handler' = [found_handler EXCEPT ![s] = handlers[p]]
               ELSE /\ Await(s, "na", WriteOp(not_found_reply))
                    /\ found_handler' = [found_handler EXCEPT ![s] = None]
    /\ UNCHANGED <<handlers, last_add, handshake_contents, result, raised>>

\* negotiate(): a command was read.  "ls" is passed over and the loop reads
\* again; a registered protocol is confirmed; any other gets "na".
loop_read_ok(s, tok) ==
    /\ pc[s] = "read"
    /\ command' = [command EXCEPT ![s] = tok]
    /\ IF is_ls(tok)
       THEN /\ log' = [log EXCEPT ![s] = Append(@, Read(tok))]
            /\ Await(s, "read", ReadOp)
            /\ UNCHANGED <<protocol, found_handler>>
       ELSE /\ protocol' = [protocol EXCEPT ![s] = TProtocol(tok)]
            /\ log' = [log EXCEPT ![s] =
                         @ \o <<Read(tok),
                                Lookup(TProtocol(tok), has_handler(handlers, TProtocol(tok)))>>]
            /\ IF has_handler(handlers, TProtocol(tok))
               THEN /\ Await(s, "confirm", WriteOp(confirmation_token(TProtocol(tok))))
                    /\ found_handler' = [found_handler EXCEPT ![s] = handlers[TProtocol(tok)]]
               ELSE /\ Await(s, "na", WriteOp(not_found_reply))
                    /\ found_handler' = [found_handler EXCEPT ![s] = None]
    /\ UNCHANGED <<handlers, last_add, handshake_contents, result, raised>>

\* negotiate(): the read of a command raised MultiselectCommunicatorError.
loop_read_fail(s, m) ==
    /\ pc[s] = "read"
    /\ log' = [log EXCEPT ![s] = Append(@, ReadRaised(m))]
    /\ Raise(s, MultiselectError(MultiselectCommunicatorError(m)))
    /\ UNCHANGED <<handlers, last_add, found_handler, handshake_contents, command, protocol, result>>

\* Faulty variant: the handler is fetched with the membership test and
\* returned after the write.
confirm_write_ok_cached(s) ==
    /\ pc[s] = "confirm"
    /\ log' = [log EXCEPT ![s] = Append(@, Wrote(pending[s][1].token))]
    /\ result' = [result EXCEPT ![s] = <<protocol[s], found_handler[s]>>]
    /\ pc' = [pc EXCEPT ![s] = "selected"]
    /\ pending' = [pending EXCEPT ![s] = <<>>]
    /\ UNCHANGED <<handlers, last_add, found_handler, handshake_contents, command, protocol, raised>>

\* Faulty variant: the protocol decided on is kept on the Multiselect object,
\* where the negotiation of another communicator overwrites it.
confirm_write_ok_shared_protocol(s) ==
    LET t == CHOOSE t \in Sessions : t # s
        p == IF has_handler(handlers, protocol[t]) THEN protocol[t] ELSE protocol[s]
    IN  /\ pc[s] = "confirm"
        /\ log' = [log EXCEPT ![s] = Append(@, Wrote(pending[s][1].token))]
        /\ result' = [result EXCEPT ![s] = <<p, get_handler(handlers, p)>>]
        /\ pc' = [pc EXCEPT ![s] = "selected"]
        /\ pending' = [pending EXCEPT ![s] = <<>>]
        /\ UNCHANGED <<handlers, last_add, found_handler, handshake_contents, command, protocol, raised>>

\* Faulty variant: the next token is requested before negotiate returns.
confirm_write_ok_reads_ahead(s) ==
    /\ pc[s] = "confirm"
    /\ log' = [log EXCEPT ![s] = Append(@, Wrote(pending[s][1].token))]
    /\ result' = [result EXCEPT ![s] = <<protocol[s], get_handler(handlers, protocol[s])>>]
    /\ pc' = [pc EXCEPT ![s] = "selected"]
    /\ pending' = [pending EXCEPT ![s] = <<ReadOp>>]
    /\ UNCHANGED <<handlers, last_add, found_handler, handshake_contents, command, protocol, raised>>

\* negotiate(): the confirmation was written; return protocol and handler.
confirm_write_ok(s) ==
    /\ pc[s] = "confirm"
    /\ log' = [log EXCEPT ![s] = Append(@, Wrote(pending[s][1].token))]
    /\ result' = [result EXCEPT ![s] = <<protocol[s], get_handler(handlers, protocol[s])>>]
    /\ pc' = [pc EXCEPT ![s] = "selected"]
    /\ pending' = [pending EXCEPT ![s] = <<>>]
    /\ UNCHANGED <<handlers, last_add, found_handler, handshake_contents, command, protocol, raised>>

\* Faulty variant: the failure of the confirmation write is swallowed and the
\* pair is returned.
confirm_write_fail_swallowed(s, m) ==
    /\ pc[s] = "confirm"
    /\ log' = [log EXCEPT ![s] = Append(@, WriteRaised(pending[s][1].token, m))]
    /\ result' = [result EXCEPT ![s] = <<protocol[s], get_handler(handlers, protocol[s])>>]
    /\ pc' = [pc EXCEPT ![s] = "selected"]
    /\ pending' = [pending EXCEPT ![s] = <<>>]
    /\ UNCHANGED <<handlers, last_add, found_handler, handshake_contents, command, protocol, raised>>

\* negotiate(): the confirmation write raised MultiselectCommunicatorError.
confirm_write_fail(s, m) ==
    /\ pc[s] = "confirm"
    /\ log' = [log EXCEPT ![s] = Append(@, WriteRaised(pending[s][1].token, m))]
    /\ Raise(s, MultiselectError(MultiselectCommunicatorError(m)))
    /\ UNCHANGED <<handlers, last_add, found_handler, handshake_contents, command, protocol, result>>

\* Faulty variant: negotiate gives up once a proposal was answered "na".
na_write_ok_gives_up(s) ==
    /\ pc[s] = "na"
    /\ log' = [log EXCEPT ![s] = Append(@, Wrote(pending[s][1].token))]
    /\ Raise(s, [type |-> "MultiselectError", wraps |-> "",
                 msg |-> "protocol not supported", received |-> protocol[s]])
    /\ UNCHANGED <<handlers, last_add, found_handler, handshake_contents, command, protocol, result>>

\* negotiate(): "na" was written; the loop reads the next command.
na_write_ok(s) ==
    /\ pc[s] = "na"
    /\ log' = [log EXCEPT ![s] = Append(@, Wrote(pending[s][1].token))]
    /\ Await(s, "read", ReadOp)
    /\ UNCHANGED <<handlers, last_add, found_handler, handshake_contents, command, protocol, result, raised>>

\* negotiate(): the write of "na" raised MultiselectCommunicatorError.
na_write_fail(s, m) ==
    /\ pc[s] = "na"
    /\ log' = [log EXCEPT ![s] = Append(@, WriteRaised(pending[s][1].token, m))]
    /\ Raise(s, MultiselectError(MultiselectCommunicatorError(m)))
    /\ UNCHANGED <<handlers, last_add, found_handler, handshake_contents, command, protocol, result>>

\* The steps of session s while its peer has sent fewer than max proposals.
SessionStep(s, max) ==
    \/ negotiate_call(s)
    \/ handshake_write_ok(s)
    \/ \E m \in CommFailures : handshake_write_fail(s, m)
    \/ \E tok \in Tokens : handshake_read_ok(s, tok)
    \/ \E m \in CommFailures : handshake_read_fail(s, m)
    \/ \E tok \in Tokens : LoopReads(s) < max /\ loop_read_ok(s, tok)
    \/ \E m \in CommFailures : LoopReads(s) < max /\ loop_read_fail(s, m)
    \/ confirm_write_ok(s)
    \/ \E m \in CommFailures : confirm_write_fail(s, m)
    \/ na_write_ok(s)
    \/ \E m \in CommFailures : na_write_fail(s, m)

\* The host registers a handler for one of the ids.
Register(ids) == \E p \in ids, h \in Handlers : add_handler(p, h)

\* One negotiation, with handlers registered at any time.
Next ==
    \/ Register(ProtocolIds)
    \/ \E s \in Solo : SessionStep(s, MaxProposals)

Spec == Init /\ [][Next]_vars

\* Two concurrent negotiations on one Multiselect, with handlers registered
\* at any time.
NextConc ==
    \/ Register(ConcProtocolIds)
    \/ \E s \in Sessions : SessionStep(s, MaxProposalsConc)

SpecConc == Init /\ [][NextConc]_vars

\* Two concurrent negotiations on a registry that is filled before the first
\* of them starts and left alone afterwards.
NextFrozen ==
    \/ (\A s \in Sessions : pc[s] = "idle") /\ Register(ConcProtocolIds)
    \/ \E s \in Sessions : SessionStep(s, MaxProposalsConc)

SpecFrozen == Init /\ [][NextFrozen]_vars

\* negotiate() run by itself, as sequential code, against the registry reg:
\* st is the coroutine once it has been called, and the communicator answers
\* its operations, in the order they are made, with resp[i], resp[i + 1], ...
\* (for a write: whether it raised; for a read: the token, or that it raised).
RECURSIVE RunAlone(_, _, _, _)
RunAlone(reg, resp, i, st) ==
    IF i > Len(resp) \/ st.pc \in {"selected", "failed"}
    THEN st
    ELSE
    LET r == resp[i]
        raise(entry, exc) ==
            [st EXCEPT !.pc = "failed", !.log = Append(@, entry),
                       !.raised = exc, !.pending = <<>>]
        wrapped == MultiselectError(MultiselectCommunicatorError(r.err))
        await(entries, label, op) ==
            RunAlone(reg, resp, i + 1,
                     [st EXCEPT !.pc = label, !.log = @ \o entries, !.pending = <<op>>])
    IN
    CASE st.pc = "hs_write" ->
           IF r.ok THEN await(<<Wrote(handshake_token)>>, "hs_read", ReadOp)
                   ELSE raise(WriteRaised(handshake_token, r.err), wrapped)
      [] st.pc = "hs_read" ->
           IF ~r.ok THEN raise(ReadRaised(r.err), wrapped)
           ELSE IF validate_handshake(r.token)
                THEN await(<<Read(r.token)>>, "read", ReadOp)
                ELSE raise(Read(r.token), MismatchError(r.token))
      [] st.pc = "read" ->
           IF ~r.ok THEN raise(ReadRaised(r.err), wrapped)
           ELSE IF is_ls(r.token) THEN await(<<Read(r.token)>>, "read", ReadOp)
           ELSE LET p == TProtocol(r.token)
                    entries == <<Read(r.token), Lookup(p, has_handler(reg, p))>>
                IN  RunAlone(reg, resp, i + 1,
                        [st EXCEPT !.protocol = p,
                                   !.log = @ \o entries,
                                   !.pc = IF has_handler(reg, p) THEN "confirm" ELSE "na",
                                   !.pending = IF has_handler(reg, p)
                                               THEN <<WriteOp(confirmation_token(p))>>
                                               ELSE <<WriteOp(not_found_reply)>>])
      [] st.pc = "confirm" ->
           IF r.ok
           THEN [st EXCEPT !.pc = "selected",
                           !.log = Append(@, Wrote(confirmation_token(st.protocol))),
                           !.result = <<st.protocol, get_handler(reg, st.protocol)>>,
                           !.pending = <<>>]
           ELSE raise(WriteRaised(confirmation_token(st.protocol), r.err), wrapped)
      [] st.pc = "na" ->
           IF r.ok THEN await(<<Wrote(not_found_reply)>>, "read", ReadOp)
                   ELSE raise(WriteRaised(not_found_reply, r.err), wrapped)

\* negotiate() right after it was called.
Called ==
    [pc |-> "hs_write", log |-> <<>>, protocol |-> None, result |-> <<>>,
     raised |-> NoError, pending |-> <<WriteOp(handshake_token)>>]

\* What session s is, as far as its caller and its peer can tell.
Observed(s) ==
    [pc |-> pc[s], log |-> log[s], protocol |-> protocol[s], result |-> result[s],
     raised |-> raised[s], pending |-> pending[s]]

\* ------------------------------------------------------------------------
\* Vocabulary of the properties
\* ------------------------------------------------------------------------
\* The states of the negotiation engine.
State(s) ==
    CASE pc[s] = "idle" -> "Init"
      [] pc[s] \in {"hs_write", "hs_read"} -> "Handshaking"
      [] pc[s] \in {"read", "confirm", "na"} -> "ProposalLoop"
      [] pc[s] = "selected" -> "Selected"
      [] pc[s] = "failed" -> "Failed"

\* The handshake of s was written and answered with the handshake token.
HandshakeMatched(s) ==
    /\ Len(log[s]) >= 2
    /\ log[s][1] = Wrote(MULTISELECT_PROTOCOL_ID)
    /\ log[s][2] = Read(MULTISELECT_PROTOCOL_ID)

\* In this step the communicator of s completes a read that returns tok.
ReadsNow(s, tok) ==
    /\ pending[s] = <<ReadOp>>
    /\ Len(log'[s]) > Len(log[s])
    /\ log'[s][Len(log[s]) + 1] = Read(tok)

\* In this step the communicator of s completes its outstanding write.
WritesNow(s) ==
    /\ Len(pending[s]) = 1
    /\ pending[s][1].op = "write"
    /\ log'[s] = Append(log[s], Wrote(pending[s][1].token))

\* The log of s with the handshake done and p read as the first proposal.
FirstProposal(p) ==
    <<Wrote(MULTISELECT_PROTOCOL_ID), Read(MULTISELECT_PROTOCOL_ID), Read(p)>>

\* Proposing the registered id p right after the handshake gets p confirmed,
\* and when the confirmation is written negotiate returns p with the handler
\* the registry holds for p, having written p once.
SelectsFirstProposal(s, p) ==
    /\ (/\ log[s] = SubSeq(FirstProposal(p), 1, 2)
        /\ p \in DOMAIN handlers
        /\ ReadsNow(s, p))
       => /\ pc'[s] = "confirm"
          /\ pending'[s] = <<WriteOp(p)>>
          /\ log'[s] = FirstProposal(p) \o <<Lookup(p, TRUE)>>
    /\ (/\ log[s] = FirstProposal(p) \o <<Lookup(p, TRUE)>>
        /\ WritesNow(s))
       => /\ State(s)' = "Selected"
          /\ result'[s] = <<p, handlers'[p]>>
          /\ raised'[s] = NoError
          /\ pending'[s] = <<>>
          /\ log'[s] = FirstProposal(p) \o <<Lookup(p, TRUE), Wrote(p)>>

\* C1, as stated: for every registered id p, a peer that completes the
\* handshake and then proposes p gets p selected: negotiate returns p and the
\* handler registered for p after writing exactly one confirmation token p.
C1_AnyRegisteredSelected ==
    [][\A s \in Sessions, p \in Tokens : SelectsFirstProposal(s, p)]_vars

\* C1, amended: the same for every registered id p other than the listing
\* token "ls".
C1_RegisteredNonLsSelected ==
    [][\A s \in Sessions, p \in Tokens \ {LS_COMMAND} : SelectsFirstProposal(s, p)]_vars

\* C1 witness: the echo protocol, proposed first, has been selected.
C1_Witness ==
    \E s \in Sessions :
        /\ pc[s] = "selected"
        /\ log[s] = FirstProposal(ECHO) \o <<Lookup(ECHO, TRUE), Wrote(ECHO)>>
        /\ result[s][1] = ECHO

\* C2: a proposal that is neither "ls" nor registered makes negotiate write
\* exactly "na"; when that write succeeds the session is still in the proposal
\* loop, has neither returned nor raised, and is next reading a proposal.
C2_UnregisteredGetsNa ==
    [][\A s \in Sessions, p \in Tokens \ {LS_COMMAND} :
         /\ (/\ pc[s] = "read"
             /\ p \notin DOMAIN handlers
             /\ ReadsNow(s, p))
            => /\ pc'[s] = "na"
               /\ pending'[s] = <<WriteOp(PROTOCOL_NOT_FOUND_MSG)>>
               /\ log'[s] = log[s] \o <<Read(p), Lookup(p, FALSE)>>
               /\ result'[s] = <<>>
               /\ raised'[s] = NoError
         /\ (/\ pc[s] = "na"
             /\ WritesNow(s))
            => /\ log'[s] = Append(log[s], Wrote(PROTOCOL_NOT_FOUND_MSG))
               /\ State(s)' = "ProposalLoop"
               /\ pending'[s] = <<ReadOp>>
               /\ result'[s] = <<>>
               /\ raised'[s] = NoError]_vars

\* C2 witness: "na" was written for the unregistered chat protocol and the
\* session is reading again.
C2_Witness ==
    \E s \in Sessions :
        /\ log[s] = FirstProposal(CHAT) \o <<Lookup(CHAT, FALSE), Wrote(PROTOCOL_NOT_FOUND_MSG)>>
        /\ pc[s] = "read"
        /\ pending[s] = <<ReadOp>>

\* C3: when the token read in the handshake is not "/multistream/1.0.0",
\* negotiate has failed with the mismatch error carrying that token, and the
\* handshake read is the last thing done on the communicator.
C3_HandshakeMismatchFails ==
    \A s \in Sessions :
        (/\ Len(log[s]) >= 2
         /\ log[s][2].op = "read"
         /\ log[s][2].ok
         /\ log[s][2].token # MULTISELECT_PROTOCOL_ID)
        => /\ State(s) = "Failed"
           /\ raised[s].type = "MultiselectError"
           /\ raised[s].msg = "multiselect protocol ID mismatch: received handshake_contents="
           /\ raised[s].received = log[s][2].token
           /\ raised[s].wraps = ""
           /\ result[s] = <<>>
           /\ Len(log[s]) = 2
           /\ pending[s] = <<>>

\* C3 witness: a session failed on a handshake answered with "/echo/1.0.0".
C3_Witness ==
    \E s \in Sessions :
        /\ pc[s] = "failed"
        /\ Len(log[s]) = 2
        /\ log[s][2] = Read(ECHO)
        /\ raised[s].received = ECHO

\* The entry of the log is a communicator operation.
IsComm(e) == e.op \in {"read", "write"}
IsWrite(e) == e.op = "write"
IsRead(e) == e.op = "read"
IsLookup(e) == e.op = "lookup"
TokensOf(seq) == [i \in 1..Len(seq) |-> seq[i].token]

\* C4: nothing of the proposal loop (a registry lookup, a write of "na" or of
\* a confirmation, a read of a proposal) is in the log of a session unless its
\* first two entries are the handshake write and the matching handshake read;
\* the session is in the handshake only with fewer than two entries logged, so
\* the handshake runs once; and a proposal equal to the handshake token is
\* looked up and answered like any other proposal.
C4_HandshakeOnceBeforeProposals ==
    \A s \in Sessions :
        /\ \A i \in 1..Len(log[s]) :
             (IsLookup(log[s][i]) \/ (IsWrite(log[s][i]) /\ i > 1) \/ (IsRead(log[s][i]) /\ i > 2))
             => (i > 2 /\ HandshakeMatched(s))
        /\ Len(log[s]) >= 1 => (IsWrite(log[s][1]) /\ log[s][1].token = MULTISELECT_PROTOCOL_ID)
        /\ Len(log[s]) >= 2 => IsRead(log[s][2])
        /\ State(s) \in {"ProposalLoop", "Selected"} => HandshakeMatched(s)
        /\ State(s) = "Handshaking" => Len(log[s]) <= 1
        /\ Len(log[s]) >= 2 => State(s) \notin {"Init", "Handshaking"}
        /\ \A i \in 3..Len(log[s]) :
             log[s][i] = Read(MULTISELECT_PROTOCOL_ID)
             => /\ i < Len(log[s])
                /\ IsLookup(log[s][i + 1])
                /\ log[s][i + 1].token = MULTISELECT_PROTOCOL_ID
                /\ i + 2 <= Len(log[s])
                   => /\ IsWrite(log[s][i + 2])
                      /\ log[s][i + 2].token =
                           IF log[s][i + 1].ok THEN MULTISELECT_PROTOCOL_ID
                                               ELSE PROTOCOL_NOT_FOUND_MSG

\* C4 witness: after the handshake the peer proposed the handshake token,
\* which is registered, and it was selected as a protocol.
C4_Witness ==
    \E s \in Sessions :
        /\ pc[s] = "selected"
        /\ log[s] = FirstProposal(MULTISELECT_PROTOCOL_ID)
                      \o <<Lookup(MULTISELECT_PROTOCOL_ID, TRUE), Wrote(MULTISELECT_PROTOCOL_ID)>>
        /\ result[s][1] = MULTISELECT_PROTOCOL_ID

\* C5: a read or write that raised is the last entry of the session's log,
\* the session is Failed with a MultiselectError that wraps the communicator
\* error, nothing is returned and no communicator operation is outstanding;
\* no session ever surfaces another kind of error.
C5_CommFailureFailsSession ==
    \A s \in Sessions :
        /\ \A i \in 1..Len(log[s]) :
             (IsComm(log[s][i]) /\ ~log[s][i].ok)
             => /\ i = Len(log[s])
                /\ State(s) = "Failed"
                /\ raised[s].type = "MultiselectError"
                /\ raised[s].wraps = "MultiselectCommunicatorError"
                /\ raised[s].msg = log[s][i].err
                /\ result[s] = <<>>
                /\ pending[s] = <<>>
        /\ raised[s] # NoError => (raised[s].type = "MultiselectError" /\ State(s) = "Failed")
        /\ State(s) = "Failed" => (result[s] = <<>> /\ raised[s] # NoError)

\* C5 witness: the write of "na" raised and the session failed.
C5_Witness ==
    \E s \in Sessions, m \in CommFailures :
        /\ pc[s] = "failed"
        /\ log[s] = FirstProposal(CHAT)
                      \o <<Lookup(CHAT, FALSE), WriteRaised(PROTOCOL_NOT_FOUND_MSG, m)>>

\* C6: in a session that ended in Selected the tokens written are the
\* handshake token, then one "na" for each proposal that was neither "ls" nor
\* registered, each written right after that proposal was read, then the
\* selected protocol id, which is the last proposal read.
C6_WriteSequenceOfSelected ==
    \A s \in Sessions :
        pc[s] = "selected" =>
        LET written == TokensOf(SelectSeq(log[s], IsWrite))
            reads == TokensOf(SelectSeq(log[s], IsRead))
            proposals == SubSeq(reads, 2, Len(reads))
            NotLs(tok) == tok # LS_COMMAND
            rejected == SelectSeq(SubSeq(proposals, 1, Len(proposals) - 1), NotLs)
        IN  /\ \A i \in 1..Len(log[s]) : IsComm(log[s][i]) => log[s][i].ok
            /\ Len(proposals) >= 1
            /\ proposals[Len(proposals)] = result[s][1]
            /\ written = <<MULTISELECT_PROTOCOL_ID>>
                           \o [i \in 1..Len(rejected) |-> PROTOCOL_NOT_FOUND_MSG]
                           \o <<result[s][1]>>
            /\ \A i \in 3..Len(log[s]) :
                 (IsRead(log[s][i]) /\ log[s][i].token # LS_COMMAND)
                 => /\ log[s][i + 1] = Lookup(log[s][i].token, i + 2 = Len(log[s]))
                    /\ log[s][i + 2] = Wrote(IF i + 2 = Len(log[s]) THEN result[s][1]
                                                                   ELSE PROTOCOL_NOT_FOUND_MSG)

\* C6 witness: the end-to-end scenario: only the echo protocol is registered,
\* the peer proposes chat, gets "na", proposes echo and gets it.
C6_Witness ==
    \E s \in Sessions :
        /\ DOMAIN handlers = {ECHO}
        /\ pc[s] = "selected"
        /\ log[s] = FirstProposal(CHAT)
                      \o <<Lookup(CHAT, FALSE), Wrote(PROTOCOL_NOT_FOUND_MSG),
                           Read(ECHO), Lookup(ECHO, TRUE), Wrote(ECHO)>>
        /\ result[s] = <<ECHO, handlers[ECHO]>>

\* C7: the registry maps the id of the latest add_handler call to the handler
\* of that call and to nothing else, whatever the id was mapped to before
\* (last write wins), and a negotiate that returns with p selected returns p
\* with the handler the registry then holds for p, so never a handler that
\* was replaced before it returned.
C7_LastRegistrationWins ==
    /\ [](last_add # <<>> =>
            /\ last_add[1] \in DOMAIN handlers
            /\ handlers[last_add[1]] = last_add[2])
    /\ [][\A s \in Sessions :
            (pc[s] # "selected" /\ pc'[s] = "selected")
            => /\ Len(result'[s]) = 2
               /\ result'[s][1] \in DOMAIN handlers'
               /\ result'[s][1] = log'[s][Len(log'[s])].token
               /\ result'[s][2] = handlers'[result'[s][1]]
               /\ result'[s][1] = last_add'[1] => result'[s][2] = last_add'[2]]_vars

\* C7 witness: one negotiation returned echo with h1, echo was registered
\* again with h2, and a later return of echo carries h2.
C7_Witness ==
    /\ result["s1"] = <<ECHO, "h1">>
    /\ result["s2"] = <<ECHO, "h2">>
    /\ last_add = <<ECHO, "h2">>
    /\ handlers[ECHO] = "h2"

\* C8: when the write of the confirmation of a registered proposal raised,
\* the session is Failed with a MultiselectError and has returned nothing; a
\* session is Selected only with the successful write of the returned id as
\* the last entry of its log, right after the lookup that found it.
C8_SelectedOnlyAfterConfirmation ==
    \A s \in Sessions :
        LET n == Len(log[s]) IN
        /\ (/\ n >= 2
            /\ IsLookup(log[s][n - 1])
            /\ log[s][n - 1].ok
            /\ IsWrite(log[s][n])
            /\ ~log[s][n].ok)
           => /\ State(s) = "Failed"
              /\ result[s] = <<>>
              /\ raised[s].type = "MultiselectError"
        /\ State(s) = "Selected"
           => /\ n >= 2
              /\ log[s][n] = Wrote(result[s][1])
              /\ log[s][n - 1] = Lookup(result[s][1], TRUE)
              /\ raised[s] = NoError

\* C8 witness: echo was found and the write of its confirmation raised.
C8_Witness ==
    \E s \in Sessions, m \in CommFailures :
        /\ pc[s] = "failed"
        /\ log[s] = FirstProposal(ECHO) \o <<Lookup(ECHO, TRUE), WriteRaised(ECHO, m)>>
        /\ result[s] = <<>>

\* C9: a proposal "ls" is followed in the log by no lookup and no write: it
\* is either the last entry, with the session in the proposal loop waiting
\* for a read, or the next entry is the next read; and the protocol a
\* session returns is never "ls", also when "ls" is registered.
C9_LsIsSkipped ==
    \A s \in Sessions :
        /\ \A i \in 3..Len(log[s]) :
             log[s][i] = Read(LS_COMMAND)
             => \/ /\ i = Len(log[s])
                   /\ pc[s] = "read"
                   /\ pending[s] = <<ReadOp>>
                   /\ result[s] = <<>>
                   /\ raised[s] = NoError
                \/ /\ i < Len(log[s])
                   /\ IsRead(log[s][i + 1])
        /\ \A i \in 1..Len(log[s]) : IsLookup(log[s][i]) => log[s][i].token # LS_COMMAND
        /\ State(s) = "Selected" => result[s][1] # LS_COMMAND

\* C9 witness: "ls" is registered, the peer proposed it, and the session is
\* waiting for the next proposal.
C9_Witness ==
    \E s \in Sessions :
        /\ LS_COMMAND \in DOMAIN handlers
        /\ log[s] = FirstProposal(LS_COMMAND)
        /\ pc[s] = "read"

\* The session failed on a communicator operation that raised.
CommFailed(s) ==
    /\ State(s) = "Failed"
    /\ Len(log[s]) >= 1
    /\ IsComm(log[s][Len(log[s])])
    /\ ~log[s][Len(log[s])].ok

\* The phase in which the failing operation of a failed session was made.
PhaseOfFailure(s) == IF Len(log[s]) <= 2 THEN "handshake" ELSE "proposal loop"

\* C10, as stated: the error of a communicator failure during the handshake
\* can be told from the error of one during the proposal loop.
C10_PhaseDistinguishable ==
    \A s, t \in Sessions :
        (CommFailed(s) /\ CommFailed(t) /\ PhaseOfFailure(s) # PhaseOfFailure(t))
        => raised[s] # raised[t]

\* C10, amended: the error of a communicator failure is a MultiselectError
\* that carries the communicator error and nothing else, so two sessions that
\* failed on the same communicator error surface equal errors, whatever the
\* phases they failed in.
C10_ErrorCarriesNoPhase ==
    \A s, t \in Sessions :
        /\ CommFailed(s)
           => raised[s] = [type |-> "MultiselectError",
                            wraps |-> "MultiselectCommunicatorError",
                            msg |-> log[s][Len(log[s])].err,
                            received |-> ""]
        /\ (/\ CommFailed(s)
            /\ CommFailed(t)
            /\ log[s][Len(log[s])].err = log[t][Len(log[t])].err)
           => raised[s] = raised[t]

\* C10 witness: one session failed in the handshake, the other in the
\* proposal loop, and both surfaced the same error.
C10_Witness ==
    /\ CommFailed("s1")
    /\ CommFailed("s2")
    /\ PhaseOfFailure("s1") = "handshake"
    /\ PhaseOfFailure("s2") = "proposal loop"
    /\ raised["s1"] = raised["s2"]

\* C11: the first entry of a session's log is the write of the handshake
\* token, made with nothing read before it; the handshake then reads one
\* token, and when that token is the handshake token the session is in the
\* proposal loop with a read outstanding and no write in between: a third
\* entry of the log is a read.
C11_HandshakeWritesThenReads ==
    \A s \in Sessions :
        /\ pc[s] = "idle" => (log[s] = <<>> /\ pending[s] = <<>>)
        /\ pc[s] = "hs_write"
           => (log[s] = <<>> /\ pending[s] = <<WriteOp(MULTISELECT_PROTOCOL_ID)>>)
        /\ Len(log[s]) >= 1
           => (IsWrite(log[s][1]) /\ log[s][1].token = MULTISELECT_PROTOCOL_ID)
        /\ pc[s] = "hs_read"
           => (log[s] = <<Wrote(MULTISELECT_PROTOCOL_ID)>> /\ pending[s] = <<ReadOp>>)
        /\ Len(log[s]) >= 2 => (log[s][1].ok /\ IsRead(log[s][2]))
        /\ log[s] = <<Wrote(MULTISELECT_PROTOCOL_ID), Read(MULTISELECT_PROTOCOL_ID)>>
           => /\ State(s) = "ProposalLoop"
              /\ pc[s] = "read"
              /\ pending[s] = <<ReadOp>>
        /\ Len(log[s]) >= 3 => (HandshakeMatched(s) /\ IsRead(log[s][3]))

\* C11 witness: the handshake matched and the session waits for the read of
\* the first proposal.
C11_Witness ==
    \E s \in Sessions :
        /\ log[s] = <<Wrote(MULTISELECT_PROTOCOL_ID), Read(MULTISELECT_PROTOCOL_ID)>>
        /\ pc[s] = "read"
        /\ pending[s] = <<ReadOp>>

\* No read or write of the session raised.
FailureFree(s) == \A i \in 1..Len(log[s]) : IsComm(log[s][i]) => log[s][i].ok

\* Every proposal the session looked up was not registered.
OnlyRejected(s) == \A i \in 1..Len(log[s]) : IsLookup(log[s][i]) => ~log[s][i].ok

\* C12: after a matching handshake and any number of proposals that were
\* "ls" or unregistered, with no communicator failure, the session is still
\* in the proposal loop, and once the last of them is answered it waits for a
\* read; the proposal loop is left only to Selected or Failed; Selected is
\* reached only without failure and with a proposal found in the registry,
\* and Failed only with a failure or a handshake mismatch.
C12_LoopLeavesOnlyBySelectedOrFailed ==
    /\ [](\A s \in Sessions :
            /\ (HandshakeMatched(s) /\ FailureFree(s) /\ OnlyRejected(s))
               => /\ State(s) = "ProposalLoop"
                  /\ ~IsLookup(log[s][Len(log[s])])
                     => (pc[s] = "read" /\ pending[s] = <<ReadOp>>)
                  /\ IsLookup(log[s][Len(log[s])])
                     => (pc[s] = "na" /\ pending[s] = <<WriteOp(PROTOCOL_NOT_FOUND_MSG)>>)
            /\ State(s) = "Selected"
               => /\ FailureFree(s)
                  /\ \E i \in 1..Len(log[s]) : IsLookup(log[s][i]) /\ log[s][i].ok
            /\ State(s) = "Failed" => (~FailureFree(s) \/ ~HandshakeMatched(s)))
    /\ [][\A s \in Sessions :
            State(s) = "ProposalLoop"
            => State(s)' \in {"ProposalLoop", "Selected", "Failed"}]_vars

\* C12 witness: every proposal the peer sent was rejected or was "ls", and
\* the session still waits for a read.
C12_Witness ==
    \E s \in Sessions :
        /\ HandshakeMatched(s)
        /\ FailureFree(s)
        /\ OnlyRejected(s)
        /\ LoopReads(s) = MaxProposals
        /\ \E i \in 1..Len(log[s]) : IsLookup(log[s][i])
        /\ \E i \in 3..Len(log[s]) : log[s][i] = Read(LS_COMMAND)
        /\ pc[s] = "read"
        /\ pending[s] = <<ReadOp>>

\* C13: a session that ended in Selected has read the handshake token and
\* then proposals of which only the last one was found, that last one being
\* the returned id, read right before its lookup and its confirmation; no read
\* is outstanding while the session writes; and a session in Selected or
\* Failed has no operation outstanding and makes none afterwards.
C13_NoReadAheadNoUseAfterEnd ==
    /\ [](\A s \in Sessions :
            LET n == Len(log[s]) IN
            /\ State(s) \in {"Selected", "Failed"} => pending[s] = <<>>
            /\ pc[s] \in {"hs_write", "confirm", "na"}
               => (Len(pending[s]) = 1 /\ pending[s][1].op = "write")
            /\ State(s) = "Selected"
               => /\ n >= 5
                  /\ log[s][2] = Read(MULTISELECT_PROTOCOL_ID)
                  /\ log[s][n - 2] = Read(result[s][1])
                  /\ IsLookup(log[s][n - 1])
                  /\ IsWrite(log[s][n])
                  /\ \A i \in 1..n : (IsLookup(log[s][i]) /\ log[s][i].ok) => i = n - 1)
    /\ [][\A s \in Sessions :
            State(s) \in {"Selected", "Failed"}
            => /\ log'[s] = log[s]
               /\ pending'[s] = <<>>
               /\ pc'[s] = pc[s]
               /\ result'[s] = result[s]
               /\ raised'[s] = raised[s]]_vars

\* C13 witness: "ls" then echo were proposed and echo was returned; the
\* session has three reads logged and nothing outstanding.
C13_Witness ==
    \E s \in Sessions :
        /\ pc[s] = "selected"
        /\ log[s] = FirstProposal(LS_COMMAND) \o <<Read(ECHO), Lookup(ECHO, TRUE), Wrote(ECHO)>>
        /\ result[s][1] = ECHO
        /\ pending[s] = <<>>

\* The answers the communicator of s gave, in order.
Answers(s) ==
    LET IsAnswer(e) == e.op \in {"read", "write"} IN SelectSeq(log[s], IsAnswer)

\* C14: with the registry left alone while sessions run, every session that
\* was started is, in every interleaving with the other one, exactly what
\* negotiate run by itself against the same registry makes of the same
\* answers of its communicator: the same tokens written in the same order and
\* the same outcome; and no step of a session changes the registry.
C14_SessionsIndependent ==
    /\ [](\A s \in Sessions :
            pc[s] # "idle" => Observed(s) = RunAlone(handlers, Answers(s), 1, Called))
    /\ [][(\E s \in Sessions : Observed(s)' # Observed(s))
          => (handlers' = handlers /\ last_add' = last_add)]_vars

\* C14 witness: on a registry that holds echo only, one session returned
\* echo while the other has answered "na" to chat and reads on.
C14_Witness ==
    /\ DOMAIN handlers = {ECHO}
    /\ pc["s1"] = "selected"
    /\ result["s1"] = <<ECHO, handlers[ECHO]>>
    /\ log["s2"] = FirstProposal(CHAT) \o <<Lookup(CHAT, FALSE), Wrote(PROTOCOL_NOT_FOUND_MSG)>>
    /\ pc["s2"] = "read"

\* C15: while a session is suspended in the confirmation write its protocol
\* stays registered, so the lookup made at the return cannot fail, and the
\* pair returned holds what the registry maps the protocol to at the return:
\* when add_handler replaced the handler during the write, the new handler is
\* returned and not the one the membership test saw.
C15_ReturnsHandlerAtReturn ==
    /\ [](\A s \in Sessions :
            pc[s] = "confirm"
            => /\ protocol[s] \in DOMAIN handlers
               /\ found_handler[s] \in Handlers)
    /\ [][\A s \in Sessions :
            (pc[s] = "confirm" /\ pc'[s] = "selected")
            => /\ result'[s] = <<protocol[s], handlers'[protocol[s]]>>
               /\ found_handler'[s] # handlers'[protocol[s]]
                  => result'[s][2] # found_handler'[s]]_vars

\* C15 witness: the membership test saw echo mapped to h1, echo was
\* registered with h2 during the confirmation write, and h2 was returned.
C15_Witness ==
    \E s \in Sessions :
        /\ pc[s] = "selected"
        /\ found_handler[s] = "h1"
        /\ result[s] = <<ECHO, "h2">>

\* C16: each proposal is decided on the registry as it is when the proposal
\* is read: an id that is registered at that moment is confirmed and one that
\* is not gets "na", whatever the session has answered before, so an id
\* registered after the session answered "na" to it is selected when it is
\* proposed again.
C16_RegistryReadAtEachProposal ==
    [][\A s \in Sessions, p \in Tokens \ {LS_COMMAND} :
         (pc[s] = "read" /\ ReadsNow(s, p))
         => /\ log'[s] = log[s] \o <<Read(p), Lookup(p, p \in DOMAIN handlers)>>
            /\ pc'[s] = IF p \in DOMAIN handlers THEN "confirm" ELSE "na"
            /\ pending'[s] = <<WriteOp(IF p \in DOMAIN handlers
                                       THEN p ELSE PROTOCOL_NOT_FOUND_MSG)>>]_vars

\* C16 witness: echo was answered "na", then registered, then proposed again
\* and selected in the same session.
C16_Witness ==
    \E s \in Sessions :
        /\ pc[s] = "selected"
        /\ log[s] = FirstProposal(ECHO)
                      \o <<Lookup(ECHO, FALSE), Wrote(PROTOCOL_NOT_FOUND_MSG),
                           Read(ECHO), Lookup(ECHO, TRUE), Wrote(ECHO)>>
        /\ result[s][1] = ECHO

\* C17: a step that changes the registry or is the latest add_handler call
\* maps the id of that call to its handler, leaves every other id with the
\* handler it had and changes no session; in no step does a registered id
\* stop being registered.
C17_AddHandlerChangesOneMapping ==
    [][/\ DOMAIN handlers \subseteq DOMAIN handlers'
       /\ (handlers' # handlers \/ last_add' # last_add)
          => /\ Len(last_add') = 2
             /\ DOMAIN handlers' = DOMAIN handlers \cup {last_add'[1]}
             /\ handlers'[last_add'[1]] = last_add'[2]
             /\ \A k \in DOMAIN handlers : k # last_add'[1] => handlers'[k] = handlers[k]
             /\ \A s \in Sessions : Observed(s)' = Observed(s)
             /\ UNCHANGED <<handshake_contents, command, found_handler>>]_vars

\* C17 witness: with a session waiting for a proposal, a second id was
\* registered and the first one kept its handler.
C17_Witness ==
    \E s \in Sessions :
        /\ pc[s] = "read"
        /\ last_add = <<LS_COMMAND, "h2">>
        /\ DOMAIN handlers = {ECHO, LS_COMMAND}
        /\ handlers[ECHO] = "h1"
        /\ handlers[LS_COMMAND] = "h2"

\* C18: a session has at most one communicator operation outstanding: none
\* before negotiate is called and after it ended, and otherwise the one
\* operation the coroutine is suspended on.
C18_OneOutstandingOperation ==
    \A s \in Sessions :
        /\ Len(pending[s]) <= 1
        /\ State(s) \in {"Init", "Selected", "Failed"} => pending[s] = <<>>
        /\ pc[s] \in {"hs_write", "confirm", "na"}
           => (Len(pending[s]) = 1 /\ pending[s][1].op = "write")
        /\ pc[s] \in {"hs_read", "read"} => pending[s] = <<ReadOp>>

\* C18 witness: both sessions are suspended, each on its one operation.
C18_Witness ==
    /\ pending["s1"] = <<WriteOp(PROTOCOL_NOT_FOUND_MSG)>>
    /\ pending["s2"] = <<ReadOp>>
    /\ pc["s1"] = "na"
    /\ pc["s2"] = "hs_read"

====
